---- MODULE Spec2Model ----
(***************************************************************************)
(* Model of the lionagi agent-execution engine.                            *)
(*                                                                         *)
(*   Orchestrator: BaseAgent (lionagi/os/operator/agent/base_agent.py) and *)
(*   Agent (lionagi/core/Agent/Agent.py), with the Start trigger, the      *)
(*   router (MailManager), the two collaborators (Structure, Executable)   *)
(*   and the supervisor task mail_manager_control.                         *)
(*                                                                         *)
(*   Dispatcher: ParallelUnit._parallel_chat                               *)
(*   (lionagi/os/operator/processor/parallel.py).                          *)
(*                                                                         *)
(* Spec is the orchestrator's state machine, TimedSpec the same with the    *)
(* supervisor's sleeps counted, DispatchSpec the dispatcher's.             *)
(***************************************************************************)
EXTENDS Naturals, Sequences, FiniteSets, TLC

VARIABLES
    \* ---- orchestrator ----
    impl,            \* which orchestrator class the instance is
    output_parser,   \* self.output_parser: configured (TRUE) or None (FALSE)
    start_context,   \* BaseAgent.start_context
    epc,             \* position of execute(): ready, triggered, joining, finalizing
    outcome,         \* how the last finished execute() ended: none, returned, raised
    ret,             \* value of the last normal return of execute()
    taskpc,          \* position of each of the four joined tasks
    execute_stop,    \* the stop flag of structure, executable and mail manager
    pending_outs,    \* outbound queue of each component
    pending_ins,     \* inbound queue of each component (everything delivered to it)
    \* ---- orchestrator, history (not read by any guard) ----
    cycle,           \* execute() calls begun so far
    ctx_log,         \* the context of each execute() call, in order
    sent,            \* every mail a component appended to its outbound queue, in order
    dropped,         \* every mail the router dropped
    reported,        \* collaborators that set their stop flag in the current cycle
    parser_calls,    \* output parser invocations in the current cycle, with the argument
    polls,           \* supervisor sleeps in the current cycle (counted under TimedSpec)
    \* ---- dispatcher ----
    d_args,          \* the arguments of _parallel_chat
    d_caller,        \* the retry options the caller passed to pchat
    d_attempt,       \* attempts of _parallel_chat begun by the retry wrapper
    d_error,         \* the failure pchat ended with
    d_pc,            \* position of pchat: start, running, returned, raised
    d_slots,         \* one entry per _inner task, in launch order
    branches,        \* the local dict `branches` (branch ids)
    session_branches,\* self.session.branches (branch ids)
    next_branch,     \* next fresh branch id
    d_out            \* the value _parallel_chat returned

ovars == <<impl, output_parser, start_context, epc, outcome, ret, taskpc,
           execute_stop, pending_outs, pending_ins, cycle, ctx_log,
           sent, dropped, reported, parser_calls, polls>>
dvars == <<d_args, d_caller, d_attempt, d_error, d_pc, d_slots, branches,
           session_branches, next_branch, d_out>>
vars == <<ovars, dvars>>

(***************************************************************************)
(* Bounds                                                                  *)
(***************************************************************************)
MaxCycles == 2
MaxMails == 2
Deadline == 1
MaxPolls == Deadline + 1
MaxLen == 3
MaxInstances == 3
MaxSlots == 4
MaxRetries == 1
FairMails == 1

Contexts == {"c1", "c2"}

(***************************************************************************)
(* Identities                                                              *)
(***************************************************************************)
StructureId == "structure"
ExecutableId == "executable"
StartId == "start"
UnregisteredId == "stranger"
ManagerId == "mail_manager"
ControlId == "control"

Components == {StructureId, ExecutableId, StartId}
Collaborators == {StructureId, ExecutableId}
Flagged == {StructureId, ExecutableId, ManagerId}

\* MailManager([self.structure, self.executable, self.start])
Sources == <<StructureId, ExecutableId, StartId>>

Registered == {Sources[i] : i \in 1..Len(Sources)}

\* the functions handed to pcall / mcall
JoinedTasksNoRouter == {StructureId, ExecutableId, ControlId}
JoinedTasks == {StructureId, ExecutableId, ManagerId, ControlId}

Tasks == {StructureId, ExecutableId, ManagerId, ControlId}

Other(c) == IF c = StructureId THEN ExecutableId ELSE StructureId

(***************************************************************************)
(* Mail                                                                    *)
(***************************************************************************)
Mail(id, s, r, cat, pkg) ==
    [id |-> id, sender_id |-> s, recipient_id |-> r, category |-> cat, package |-> pkg]

\* a fresh mail id: the sender and its running count
MailId(s) == <<s, Len(sent[s]) + 1>>

\* Start.trigger: the start mail
StartMailToStructure(id, context, structure_id, executable_id) ==
    Mail(id, StartId, structure_id, "start",
         [context |-> context, structure_id |-> structure_id])
StartMail(id, context, structure_id, executable_id) ==
    Mail(id, StartId, executable_id, "start",
         [context |-> context, structure_id |-> structure_id])

\* a mail a collaborator emits while it works
WorkMail(id, s, r) == Mail(id, s, r, "work", [context |-> "work", structure_id |-> StructureId])

(***************************************************************************)
(* Router (MailManager.execute): one pass drains every registered          *)
(* component's outbound queue, in registry order, into the recipients'     *)
(* inbound queues; mail to an id that is not registered is dropped.        *)
(***************************************************************************)
RouteCrash(m) == IF m.recipient_id \in Registered THEN "deliver" ELSE "crash"
Route(m) == IF m.recipient_id \in Registered THEN "deliver" ELSE "drop"

EnqueueFront(q, m) == <<m>> \o q
Enqueue(q, m) == Append(q, m)

RECURSIVE Drained(_)
Drained(srcs) ==
    IF srcs = <<>> THEN <<>>
    ELSE pending_outs[Head(srcs)] \o Drained(Tail(srcs))

RECURSIVE DeliverAll(_, _)
DeliverAll(ms, ins) ==
    IF ms = <<>> THEN ins
    ELSE LET m == Head(ms)
         IN DeliverAll(Tail(ms),
                IF Route(m) = "deliver"
                THEN [ins EXCEPT ![m.recipient_id] = Enqueue(@, m)]
                ELSE ins)

Crashes(ms) == \E i \in 1..Len(ms) : Route(ms[i]) = "crash"
Drops(ms) == SelectSeq(ms, LAMBDA m : Route(m) = "drop")

(***************************************************************************)
(* Orchestrator                                                            *)
(***************************************************************************)
NoneRet == "None"
OutputParser(agent) == "parsed:" \o agent

ORest ==
    /\ start_context = "None"
    /\ epc = "ready"
    /\ outcome = "none"
    /\ ret = NoneRet
    /\ taskpc = [t \in Tasks |-> "idle"]
    /\ execute_stop = [f \in Flagged |-> FALSE]
    /\ pending_outs = [c \in Components |-> <<>>]
    /\ pending_ins = [c \in Components |-> <<>>]
    /\ cycle = 0
    /\ ctx_log = <<>>
    /\ sent = [c \in Components |-> <<>>]
    /\ dropped = <<>>
    /\ reported = {}
    /\ parser_calls = <<>>
    /\ polls = 0

OInit ==
    /\ impl \in {"BaseAgent", "Agent"}
    /\ output_parser \in BOOLEAN
    /\ ORest

\* the orchestrator, untouched, while the dispatcher is studied
OIdle ==
    /\ impl = "BaseAgent"
    /\ output_parser = FALSE
    /\ ORest

\* the dispatcher, untouched, while the orchestrator is studied
DIdle ==
    /\ d_args = [instruction |-> [kind |-> "none"], context |-> [kind |-> "none"],
                 num_instances |-> 1, explode |-> FALSE, include_mapping |-> TRUE]
    /\ d_caller = {}
    /\ d_attempt = 0
    /\ d_error = "none"
    /\ d_pc = "idle"
    /\ d_slots = <<>>
    /\ branches = {}
    /\ session_branches = {}
    /\ next_branch = 1
    /\ d_out = [kind |-> "none"]

Init == OInit /\ DIdle

\* execute(), up to the join: start_context, then start.trigger(...)
ExecuteTrigger(context) ==
    /\ epc = "ready"
    /\ cycle < MaxCycles
    /\ start_context' = IF impl = "BaseAgent" THEN context ELSE start_context
    /\ LET m == StartMail(MailId(StartId), context, StructureId, ExecutableId)
       IN /\ pending_outs' = [pending_outs EXCEPT ![StartId] = Append(@, m)]
          /\ sent' = [sent EXCEPT ![StartId] = Append(@, m)]
    /\ epc' = "triggered"
    /\ cycle' = cycle + 1
    /\ ctx_log' = Append(ctx_log, context)
    /\ reported' = {}
    /\ parser_calls' = <<>>
    /\ polls' = 0
    /\ UNCHANGED <<impl, output_parser, outcome, ret, taskpc, execute_stop,
                   pending_ins, dropped>>
    /\ UNCHANGED dvars

\* await pcall([...]) / mcall([...], [...]): the four tasks start
ExecuteLaunch ==
    /\ epc = "triggered"
    /\ taskpc' = [t \in Tasks |-> IF t \in JoinedTasks THEN "running" ELSE "idle"]
    /\ epc' = "joining"
    /\ UNCHANGED <<impl, output_parser, start_context, outcome, ret, execute_stop,
                   pending_outs, pending_ins, cycle, ctx_log, sent,
                   dropped, reported, parser_calls, polls>>
    /\ UNCHANGED dvars

\* the join: every joined task has finished; a failure among them is raised
AllSettled == \A t \in JoinedTasks : taskpc[t] \in {"done", "failed"}

JoinOutcomeSwallow == "return"
JoinOutcome == IF \E t \in JoinedTasks : taskpc[t] = "failed" THEN "raise" ELSE "return"

ExecuteJoin ==
    /\ epc = "joining"
    /\ AllSettled
    /\ IF JoinOutcome = "raise"
       THEN /\ epc' = "ready"
            /\ outcome' = "raised"
       ELSE /\ epc' = "finalizing"
            /\ outcome' = outcome
    /\ UNCHANGED <<impl, output_parser, start_context, ret, taskpc, execute_stop,
                   pending_outs, pending_ins, cycle, ctx_log, sent,
                   dropped, reported, parser_calls, polls>>
    /\ UNCHANGED dvars

\* after the join: BaseAgent resets the three flags, Agent does not
ResetFlags(i) == i = "BaseAgent"

ReturnValueAlwaysNone(configured, agent) == NoneRet
ReturnValue(configured, agent) == IF configured THEN OutputParser(agent) ELSE NoneRet

ParserCalls(configured, agent) == IF configured THEN <<agent>> ELSE <<>>

ExecuteFinalize ==
    /\ epc = "finalizing"
    /\ execute_stop' = IF ResetFlags(impl)
                       THEN [f \in Flagged |-> FALSE]
                       ELSE execute_stop
    /\ parser_calls' = parser_calls \o ParserCalls(output_parser, "self")
    /\ ret' = ReturnValue(output_parser, "self")
    /\ outcome' = "returned"
    /\ epc' = "ready"
    /\ UNCHANGED <<impl, output_parser, start_context, taskpc, pending_outs,
                   pending_ins, cycle, ctx_log, sent, dropped,
                   reported, polls>>
    /\ UNCHANGED dvars

(***************************************************************************)
(* Collaborators: Structure.execute and Executable.execute run until       *)
(* internally exhausted, then set their own stop flag and return.          *)
(***************************************************************************)
Emitted == Len(sent[StructureId]) + Len(sent[ExecutableId])

CollaboratorEmit(c, r) ==
    /\ taskpc[c] = "running"
    /\ ~execute_stop[c]
    /\ Emitted < MaxMails
    /\ LET m == WorkMail(MailId(c), c, r)
       IN /\ pending_outs' = [pending_outs EXCEPT ![c] = Append(@, m)]
          /\ sent' = [sent EXCEPT ![c] = Append(@, m)]
    /\ UNCHANGED <<impl, output_parser, start_context, epc, outcome, ret, taskpc,
                   execute_stop, pending_ins, cycle, ctx_log, dropped,
                   reported, parser_calls, polls>>
    /\ UNCHANGED dvars

CollaboratorStop(c) ==
    /\ taskpc[c] = "running"
    /\ ~execute_stop[c]
    /\ execute_stop' = [execute_stop EXCEPT ![c] = TRUE]
    /\ reported' = reported \cup {c}
    /\ UNCHANGED <<impl, output_parser, start_context, epc, outcome, ret, taskpc,
                   pending_outs, pending_ins, cycle, ctx_log, sent,
                   dropped, parser_calls, polls>>
    /\ UNCHANGED dvars

CollaboratorReturn(c) ==
    /\ taskpc[c] = "running"
    /\ execute_stop[c]
    /\ taskpc' = [taskpc EXCEPT ![c] = "done"]
    /\ UNCHANGED <<impl, output_parser, start_context, epc, outcome, ret,
                   execute_stop, pending_outs, pending_ins, cycle, ctx_log,
                   sent, dropped, reported, parser_calls, polls>>
    /\ UNCHANGED dvars

CollaboratorFail(c) ==
    /\ taskpc[c] = "running"
    /\ taskpc' = [taskpc EXCEPT ![c] = "failed"]
    /\ UNCHANGED <<impl, output_parser, start_context, epc, outcome, ret,
                   execute_stop, pending_outs, pending_ins, cycle, ctx_log,
                   sent, dropped, reported, parser_calls, polls>>
    /\ UNCHANGED dvars

(***************************************************************************)
(* Router task                                                             *)
(***************************************************************************)
RouterPass ==
    /\ taskpc[ManagerId] = "running"
    /\ ~execute_stop[ManagerId]
    /\ LET ms == Drained(Sources)
       IN IF Crashes(ms)
          THEN /\ taskpc' = [taskpc EXCEPT ![ManagerId] = "failed"]
               /\ UNCHANGED <<pending_outs, pending_ins, dropped>>
          ELSE /\ pending_outs' = [c \in Components |->
                                      IF c \in Registered THEN <<>> ELSE pending_outs[c]]
               /\ pending_ins' = DeliverAll(ms, pending_ins)
               /\ dropped' = dropped \o Drops(ms)
               /\ UNCHANGED taskpc
    /\ UNCHANGED <<impl, output_parser, start_context, epc, outcome, ret,
                   execute_stop, cycle, ctx_log, sent, reported,
                   parser_calls, polls>>
    /\ UNCHANGED dvars

RouterExit ==
    /\ taskpc[ManagerId] = "running"
    /\ execute_stop[ManagerId]
    /\ taskpc' = [taskpc EXCEPT ![ManagerId] = "done"]
    /\ UNCHANGED <<impl, output_parser, start_context, epc, outcome, ret,
                   execute_stop, pending_outs, pending_ins, cycle, ctx_log,
                   sent, dropped, reported, parser_calls, polls>>
    /\ UNCHANGED dvars

(***************************************************************************)
(* Supervisor task: mail_manager_control                                   *)
(***************************************************************************)
EitherStopped == execute_stop[StructureId] \/ execute_stop[ExecutableId]
BothStopped == execute_stop[StructureId] /\ execute_stop[ExecutableId]

\* one turn of the loop: the flags are not both set, the task sleeps
ControlPoll ==
    /\ taskpc[ControlId] = "running"
    /\ ~BothStopped
    /\ UNCHANGED ovars
    /\ UNCHANGED dvars

\* the same turn, with the sleeps of the current cycle counted
ControlPollTimed ==
    /\ taskpc[ControlId] = "running"
    /\ ~BothStopped
    /\ polls < MaxPolls
    /\ polls' = polls + 1
    /\ UNCHANGED <<impl, output_parser, start_context, epc, outcome, ret, taskpc,
                   execute_stop, pending_outs, pending_ins, cycle, ctx_log,
                   sent, dropped, reported, parser_calls>>
    /\ UNCHANGED dvars

ControlStop ==
    /\ taskpc[ControlId] = "running"
    /\ BothStopped
    /\ execute_stop' = [execute_stop EXCEPT ![ManagerId] = TRUE]
    /\ taskpc' = [taskpc EXCEPT ![ControlId] = "done"]
    /\ UNCHANGED <<impl, output_parser, start_context, epc, outcome, ret,
                   pending_outs, pending_ins, cycle, ctx_log, sent,
                   dropped, reported, parser_calls, polls>>
    /\ UNCHANGED dvars

NextButPoll ==
    \/ \E context \in Contexts : ExecuteTrigger(context)
    \/ ExecuteLaunch
    \/ ExecuteJoin
    \/ ExecuteFinalize
    \/ \E c \in Collaborators : \E r \in {Other(c), UnregisteredId} : CollaboratorEmit(c, r)
    \/ \E c \in Collaborators : CollaboratorStop(c)
    \/ \E c \in Collaborators : CollaboratorReturn(c)
    \/ \E c \in Collaborators : CollaboratorFail(c)
    \/ RouterPass
    \/ RouterExit
    \/ ControlStop

Next ==
    \/ NextButPoll
    \/ ControlPoll

\* the orchestrator with the supervisor's sleeps counted
TimedNext ==
    \/ NextButPoll
    \/ ControlPollTimed

Spec == Init /\ [][Next]_vars

TimedSpec == Init /\ [][TimedNext]_vars

\* fair scheduling of the event loop: a task that stays ready to take its
\* next step takes it, and execute() resumes once the join is complete
Fairness ==
    /\ WF_vars(ControlStop)
    /\ WF_vars(RouterExit)
    /\ \A c \in Collaborators : WF_vars(CollaboratorReturn(c))
    /\ WF_vars(ExecuteJoin)
    /\ WF_vars(ExecuteFinalize)

\* the runs checked for termination: the collaborators emit at most
\* FairMails mails and every call is made with the same context
FairEmit(c, r) == Emitted < FairMails /\ CollaboratorEmit(c, r)

FairNext ==
    \/ ExecuteTrigger("c1")
    \/ ExecuteLaunch
    \/ ExecuteJoin
    \/ ExecuteFinalize
    \/ \E c \in Collaborators : \E r \in {Other(c), UnregisteredId} : FairEmit(c, r)
    \/ \E c \in Collaborators : CollaboratorStop(c)
    \/ \E c \in Collaborators : CollaboratorReturn(c)
    \/ \E c \in Collaborators : CollaboratorFail(c)
    \/ RouterPass
    \/ RouterExit
    \/ ControlStop
    \/ ControlPoll

FairSpec == Init /\ [][FairNext]_vars /\ Fairness

(***************************************************************************)
(* Dispatcher: ParallelUnit._parallel_chat                                 *)
(*                                                                         *)
(* Python values are records tagged by kind: none, str, list, dict.        *)
(***************************************************************************)
NoneVal == [kind |-> "none"]
Str(s) == [kind |-> "str", v |-> s]
List(q) == [kind |-> "list", v |-> q]

\* Python truthiness, as `x or y` reads it
Truthy(x) ==
    CASE x.kind = "none" -> FALSE
      [] x.kind = "str" -> x.v # ""
      [] x.kind = "list" -> x.v # <<>>
      [] OTHER -> TRUE
Or(x, y) == IF Truthy(x) THEN x ELSE y

\* convert.to_list (flatten=True, dropna=True): a list is flattened through
\* every level and its None entries are dropped; anything else is wrapped
RECURSIVE flatten_list(_)
flatten_list(q) ==
    IF q = <<>> THEN <<>>
    ELSE LET h == Head(q)
         IN (CASE h.kind = "list" -> flatten_list(h.v)
               [] h.kind = "none" -> <<>>
               [] OTHER -> <<h>>) \o flatten_list(Tail(q))
to_list(x) == IF x.kind = "list" THEN flatten_list(x.v) ELSE <<x>>

\* which of the four cases of _parallel_chat the arguments select
Shape(args) ==
    LET m == Len(to_list(args.instruction))
        c == Len(to_list(args.context))
    IN CASE m = 1 /\ c = 1 -> "inner_2"
         [] m = 1 /\ c > 1 -> "inner_3_b"
         [] m > 1 /\ c = 1 -> "inner_3"
         [] m > 1 /\ c > 1 -> "inner_4"
         [] OTHER -> "none"

Min(a, b) == IF a <= b THEN a ELSE b

\* _inner_4, explode: for ins_ in instruction for cxt_ in context
CrossPairsContextMajor(ins, cxt) ==
    [j \in 1..(Len(ins) * Len(cxt)) |->
        [ins_ |-> ins[((j - 1) % Len(ins)) + 1], cxt_ |-> cxt[((j - 1) \div Len(ins)) + 1]]]
CrossPairs(ins, cxt) ==
    [j \in 1..(Len(ins) * Len(cxt)) |->
        [ins_ |-> ins[((j - 1) \div Len(cxt)) + 1], cxt_ |-> cxt[((j - 1) % Len(cxt)) + 1]]]

\* _inner_4, no explode: zip(instruction, context)
ZipPairsByFirst(ins, cxt) ==
    [j \in 1..Len(ins) |-> [ins_ |-> ins[j], cxt_ |-> cxt[Min(j, Len(cxt))]]]
ZipPairs(ins, cxt) ==
    [j \in 1..Min(Len(ins), Len(cxt)) |-> [ins_ |-> ins[j], cxt_ |-> cxt[j]]]

\* the (ins_, cxt_) of each _inner_2 call, in the order the tasks are listed
Groups(args) ==
    LET ins == to_list(args.instruction)
        cxt == to_list(args.context)
        m == Len(ins)
        c == Len(cxt)
    IN CASE Shape(args) = "inner_2" -> << [ins_ |-> NoneVal, cxt_ |-> NoneVal] >>
         [] Shape(args) = "inner_3_b" -> [j \in 1..c |-> [ins_ |-> NoneVal, cxt_ |-> cxt[j]]]
         [] Shape(args) = "inner_3" -> [j \in 1..m |-> [ins_ |-> ins[j], cxt_ |-> NoneVal]]
         [] Shape(args) = "inner_4" ->
                IF args.explode THEN CrossPairs(ins, cxt) ELSE ZipPairs(ins, cxt)
         [] OTHER -> <<>>

\* _inner_2: num_instances _inner tasks per group; the slots in launch order
NSlots(args) == Len(Groups(args)) * args.num_instances
GroupOf(args, i) == ((i - 1) \div args.num_instances) + 1

\* Branch(...): the id of the branch the i-th task of an attempt creates
BranchIdShared(base, i) == base
BranchId(base, i) == base + i - 1

\* _inner, up to the await of branch_.chat: a fresh Branch
NewSlot(args, i, id) ==
    [ins_ |-> Groups(args)[GroupOf(args, i)].ins_,
     cxt_ |-> Groups(args)[GroupOf(args, i)].cxt_,
     st |-> "chatting", branch_id |-> id, res |-> NoneVal]

\* _inner: the instruction and the context handed to branch_.chat
SlotInstruction(args, slot) == Or(slot.ins_, args.instruction)
SlotContext(args, slot) == Or(slot.cxt_, args.context)

\* _inner, after the await: what the task returns
SlotResult(args, slot) ==
    IF args.include_mapping
    THEN [kind |-> "dict",
          instruction |-> Or(slot.ins_, args.instruction),
          context |-> Or(slot.cxt_, args.context),
          branch_id |-> slot.branch_id,
          response |-> slot.res]
    ELSE slot.res

\* _inner_2's return for group g, then the outer function's return
GroupResult(args, slots, g) ==
    to_list(List([k \in 1..args.num_instances |->
                    SlotResult(args, slots[(g - 1) * args.num_instances + k])]))
Aggregate(args, slots) ==
    IF Shape(args) = "inner_2"
    THEN GroupResult(args, slots, 1)
    ELSE to_list(List([g \in 1..Len(Groups(args)) |-> List(GroupResult(args, slots, g))]))

\* inputs
InsNames == <<"a", "b", "c", "d">>
CxtNames == <<"x", "y", "z", "w">>
StrSeq(names, n) == [i \in 1..n |-> Str(names[i])]
InsValues == {Str("a")} \cup {List(StrSeq(InsNames, n)) : n \in 0..MaxLen}
CxtValues == {Str("x")} \cup {List(StrSeq(CxtNames, n)) : n \in 0..MaxLen}
ArgValues ==
    {a \in [instruction : InsValues, context : CxtValues, num_instances : 1..MaxInstances,
            explode : BOOLEAN, include_mapping : BOOLEAN] : NSlots(a) <= MaxSlots}

\* what a branch's chat may return
ResValues == {Str("r"), NoneVal, List(<<Str("r1"), Str("r2")>>)}

DefaultBranch == 0

\* pchat: kwargs = {**retry_kwargs, **kwargs}; options are (name, value) pairs
retry_kwargs == {<<"retries", 0>>, <<"delay", 0>>}
Keys(kw) == {p[1] : p \in kw}
MergeDefaultsWin(defaults, given) == defaults \cup {p \in given : p[1] \notin Keys(defaults)}
Merge(defaults, given) == given \cup {p \in defaults : p[1] \notin Keys(given)}
Option(kw, key) == (CHOOSE p \in kw : p[1] = key)[2]
CallerKwargs == {{}} \cup {{<<"retries", k>>} : k \in 0..MaxRetries}

\* rcall: the attempts the retry wrapper allows
Attempts(kw) == Option(kw, "retries") + 1

\* _inner: where a finished branch is registered (the local dict, line 80)
SharedAfterChatEager(shared, id) == shared \cup {id}
SharedAfterChat(shared, id) == shared

DInit ==
    /\ d_args \in ArgValues
    /\ d_caller \in CallerKwargs
    /\ d_attempt = 0
    /\ d_error = "none"
    /\ d_pc = "start"
    /\ d_slots = <<>>
    /\ branches = {}
    /\ session_branches = {DefaultBranch}
    /\ next_branch = 1
    /\ d_out = NoneVal

\* _parallel_chat is entered: the case is selected and its tasks are started;
\* with no case selected the function falls off its end and returns None
DCall ==
    /\ d_pc = "start"
    /\ d_attempt' = d_attempt + 1
    /\ branches' = {}
    /\ IF Shape(d_args) = "none"
       THEN /\ d_pc' = "returned"
            /\ d_out' = NoneVal
            /\ UNCHANGED <<d_slots, next_branch>>
       ELSE /\ d_pc' = "running"
            /\ d_slots' = [i \in 1..NSlots(d_args) |-> NewSlot(d_args, i, BranchId(next_branch, i))]
            /\ next_branch' = next_branch + NSlots(d_args)
            /\ UNCHANGED d_out
    /\ UNCHANGED <<d_args, d_caller, d_error, session_branches>>
    /\ UNCHANGED ovars

\* branch_.chat of slot i returns r: branches[branch_.id_] = branch_
BranchChatDone(i, r) ==
    /\ d_pc = "running"
    /\ i \in 1..Len(d_slots)
    /\ d_slots[i].st = "chatting"
    /\ d_slots' = [d_slots EXCEPT ![i].st = "done", ![i].res = r]
    /\ branches' = branches \cup {d_slots[i].branch_id}
    /\ session_branches' = SharedAfterChat(session_branches, d_slots[i].branch_id)
    /\ UNCHANGED <<d_args, d_caller, d_attempt, d_error, d_pc, next_branch, d_out>>
    /\ UNCHANGED ovars

\* branch_.chat of slot i raises: the task ends without a result
BranchChatFail(i) ==
    /\ d_pc = "running"
    /\ i \in 1..Len(d_slots)
    /\ d_slots[i].st = "chatting"
    /\ d_slots' = [d_slots EXCEPT ![i].st = "failed"]
    /\ UNCHANGED <<d_args, d_caller, d_attempt, d_error, d_pc, branches,
                   session_branches, next_branch, d_out>>
    /\ UNCHANGED ovars

\* the tasks have all ended and one of them raised: _parallel_chat raises, and
\* the retry wrapper starts it again or gives up
DAttemptFail ==
    /\ d_pc = "running"
    /\ \A i \in 1..Len(d_slots) : d_slots[i].st \in {"done", "failed"}
    /\ \E i \in 1..Len(d_slots) : d_slots[i].st = "failed"
    /\ IF d_attempt < Attempts(Merge(retry_kwargs, d_caller))
       THEN /\ d_pc' = "start"
            /\ UNCHANGED d_error
       ELSE /\ d_pc' = "raised"
            /\ d_error' = "RetryExhausted"
    /\ UNCHANGED <<d_args, d_caller, d_attempt, d_slots, branches,
                   session_branches, next_branch, d_out>>
    /\ UNCHANGED ovars

\* every task has finished: self.session.branches.update(branches); return out_
DReturn ==
    /\ d_pc = "running"
    /\ \A i \in 1..Len(d_slots) : d_slots[i].st = "done"
    /\ session_branches' = session_branches \cup branches
    /\ d_out' = List(Aggregate(d_args, d_slots))
    /\ d_pc' = "returned"
    /\ UNCHANGED <<d_args, d_caller, d_attempt, d_error, d_slots, branches, next_branch>>
    /\ UNCHANGED ovars

DNext ==
    \/ DCall
    \/ \E i \in 1..MaxSlots : \E r \in ResValues : BranchChatDone(i, r)
    \/ \E i \in 1..MaxSlots : BranchChatFail(i)
    \/ DAttemptFail
    \/ DReturn

DispatchInit == DInit /\ OIdle

DispatchSpec == DispatchInit /\ [][DNext]_vars

(***************************************************************************)
(* Claims about the orchestrator                                           *)
(***************************************************************************)
AllTasksDone == \A t \in Tasks : taskpc[t] = "done"
Returned == epc = "ready" /\ outcome = "returned"
FromTo(q, s, r) == SelectSeq(q, LAMBDA m : m.sender_id = s /\ m.recipient_id = r)
Range(q) == {q[i] : i \in 1..Len(q)}

\* C1: when execute() has returned, the stop flags of Structure, Executable
\* and the Router are all false again (after the first and after every
\* repeated call on the same instance).
C1_FlagsResetOnReturn ==
    Returned => \A f \in Flagged : ~execute_stop[f]

\* C2: while a cycle runs (one that does not follow a failed cycle), the
\* Router's stop flag is true only if Structure and Executable have both
\* set their stop flag in that same cycle.
C2_RouterStopOnlyAfterBothReported ==
    (epc = "joining" /\ outcome # "raised" /\ execute_stop[ManagerId])
        => Collaborators \subseteq reported

\* C3: after n execute() calls the Start trigger has appended exactly n
\* mails to its outbound queue, the i-th being the start mail of the i-th
\* call: category "start", sender the Start trigger, recipient the
\* Executable, payload {context of the i-th call, the Structure's id}; each
\* is still queued, delivered to the Executable, or was dropped by the
\* router; and no task runs between the trigger and the launch.
C3_OneStartMailPerCycle ==
    /\ Len(sent[StartId]) = cycle
    /\ Len(ctx_log) = cycle
    /\ \A i \in 1..Len(sent[StartId]) :
          /\ i <= Len(ctx_log)
          /\ sent[StartId][i] =
                [id |-> <<StartId, i>>, sender_id |-> StartId,
                 recipient_id |-> ExecutableId, category |-> "start",
                 package |-> [context |-> ctx_log[i], structure_id |-> StructureId]]
    /\ FromTo(pending_ins[ExecutableId], StartId, ExecutableId)
          \o pending_outs[StartId] = sent[StartId]
    /\ epc = "triggered" => \A t \in Tasks : taskpc[t] # "running"

C3_Witness ==
    /\ cycle = 2
    /\ epc = "joining"
    /\ ctx_log[1] # ctx_log[2]
    /\ Len(pending_outs[StartId]) = 1

\* C4: execute() passes the join (and so resets the flags, invokes the
\* output parser and returns) only when all four tasks have completed.
C4_JoinAll ==
    (epc = "finalizing" \/ Returned \/ parser_calls # <<>>) => AllTasksDone

C4_Witness ==
    epc = "finalizing" /\ cycle = 2 /\ AllTasksDone

\* C5: a cycle in which one of the four tasks failed does not return
\* normally and does not reach the output parser: it ends raised; and
\* execute() raises only when a task failed.
C5_FailurePropagates ==
    /\ (\E t \in Tasks : taskpc[t] = "failed")
          => (epc # "finalizing" /\ parser_calls = <<>> /\ (epc = "ready" => outcome = "raised"))
    /\ (epc = "ready" /\ outcome = "raised") => \E t \in Tasks : taskpc[t] = "failed"

C5_Witness ==
    /\ epc = "ready"
    /\ outcome = "raised"
    /\ taskpc[ExecutableId] = "failed"
    /\ output_parser

\* C6: once the supervisor has slept more than the deadline's number of
\* refresh intervals without seeing both flags, execute() has ended with a
\* LivenessError.
C6_DeadlineRaisesLivenessError ==
    polls > Deadline => (epc = "ready" /\ outcome = "LivenessError")

\* C7: when execute() has returned, a configured output parser was invoked
\* exactly once in that cycle, with the orchestrator itself, and execute()
\* returned the parser's result; with no parser configured it was not
\* invoked and execute() returned None. The parser is invoked only after
\* all four tasks have finished.
C7_OutputParserContract ==
    /\ Returned =>
          IF output_parser
          THEN parser_calls = <<"self">> /\ ret = OutputParser("self")
          ELSE parser_calls = <<>> /\ ret = NoneRet
    /\ parser_calls # <<>> => (AllTasksDone /\ output_parser)
    /\ Len(parser_calls) <= 1

C7_Witness ==
    Returned /\ output_parser /\ cycle = 2 /\ ret = "parsed:self"

\* C8: for every sender and every recipient among the three registered
\* components, the sender's mails in the recipient's inbound queue, followed
\* by those still in the sender's outbound queue, are exactly the mails the
\* sender appended for that recipient, in the order it appended them: none
\* reordered, duplicated or lost.
C8_FifoPerSenderRecipient ==
    \A s \in Components : \A r \in Components :
        FromTo(pending_ins[r], s, r) \o FromTo(pending_outs[s], s, r) = FromTo(sent[s], s, r)

C8_Witness ==
    /\ Len(FromTo(pending_ins[ExecutableId], StructureId, ExecutableId)) = 2
    /\ Len(FromTo(pending_ins[ExecutableId], StartId, ExecutableId)) = 1

\* C9: the router task never fails; it drops only mail addressed to an id
\* that is not registered; every mail addressed to a registered component is
\* in its sender's outbound queue or in the recipient's inbound queue, also
\* when it was sent after a dropped one; and the router has exited only
\* with its stop flag set.
C9_UnregisteredMailDropped ==
    /\ taskpc[ManagerId] # "failed"
    /\ \A i \in 1..Len(dropped) : dropped[i].recipient_id \notin Components
    /\ \A s \in Components : \A i \in 1..Len(sent[s]) :
          LET m == sent[s][i]
          IN IF m.recipient_id \in Components
             THEN m \in Range(pending_outs[s]) \cup Range(pending_ins[m.recipient_id])
             ELSE m \in Range(pending_outs[s]) \cup Range(dropped)
    /\ (epc = "joining" /\ taskpc[ManagerId] = "done") => execute_stop[ManagerId]

C9_Witness ==
    /\ Len(dropped) = 1
    /\ dropped[1].id = <<StructureId, 1>>
    /\ \E i \in 1..Len(pending_ins[ExecutableId]) :
          pending_ins[ExecutableId][i].id = <<StructureId, 2>>
    /\ taskpc[ManagerId] = "running"

(***************************************************************************)
(* Claims about the dispatcher                                             *)
(***************************************************************************)
SeqLen(x) == IF x.kind = "list" THEN Len(x.v) ELSE 1
ValidInput(args) == SeqLen(args.instruction) >= 1 /\ SeqLen(args.context) >= 1

\* the number of descriptors of the expansion plan
ExpectedCount(args) ==
    LET m == SeqLen(args.instruction)
        c == SeqLen(args.context)
        n == args.num_instances
    IN CASE m = 1 /\ c = 1 -> n
         [] m = 1 -> c * n
         [] c = 1 -> m * n
         [] args.explode -> m * c * n
         [] OTHER -> Min(m, c) * n

\* C10: for every valid input and whatever the branches returned, the
\* dispatcher returns a sequence whose length is the number of descriptors
\* of the expansion plan.
C10_OutputLengthIsPlanLength ==
    (d_pc = "returned" /\ ValidInput(d_args))
        => (d_out.kind = "list" /\ Len(d_out.v) = ExpectedCount(d_args))

\* the attempt's tasks exist: the branches were created from the plan
Launched == d_pc \in {"running", "returned", "raised"}
IsSeq(x, k) == x.kind = "list" /\ Len(x.v) = k
LongSeq(x) == x.kind = "list" /\ Len(x.v) > 1
Single(x) == SeqLen(x) = 1
\* the one element of a single argument, given bare or as a sequence of one
TheElement(x) == IF x.kind = "list" THEN x.v[1] ELSE x

\* C11: the entry at position i of the returned sequence is the result of the
\* i-th descriptor's branch, whatever order the branches completed in.
C11_OutputOrderedBySlot ==
    (d_pc = "returned" /\ ValidInput(d_args))
        => /\ d_out.kind = "list"
           /\ \A i \in 1..Len(d_slots) :
                /\ i <= Len(d_out.v)
                /\ IF d_args.include_mapping
                   THEN /\ d_out.v[i].kind = "dict"
                        /\ d_out.v[i].branch_id = d_slots[i].branch_id
                        /\ d_out.v[i].response = d_slots[i].res
                   ELSE d_out.v[i] = d_slots[i].res

C14_SingleElementPerBranch ==
    (Launched /\ ValidInput(d_args) /\ (Single(d_args.instruction) \/ Single(d_args.context)))
        => LET n == d_args.num_instances
               k == SeqLen(d_args.instruction) * SeqLen(d_args.context)
           IN /\ Len(d_slots) = k * n
              /\ \A j \in 1..k : \A r \in 1..n :
                    LET slot == d_slots[(j - 1) * n + r]
                    IN /\ SlotInstruction(d_args, slot) =
                            (IF Single(d_args.instruction)
                             THEN TheElement(d_args.instruction)
                             ELSE d_args.instruction.v[j])
                       /\ SlotContext(d_args, slot) =
                            (IF Single(d_args.context)
                             THEN TheElement(d_args.context)
                             ELSE d_args.context.v[j])

SlotIds == {d_slots[i].branch_id : i \in 1..Len(d_slots)}
SomeSlotFailed == \E i \in 1..Len(d_slots) : d_slots[i].st = "failed"
AllSlotsDone == \A i \in 1..Len(d_slots) : d_slots[i].st = "done"

\* C15: every slot runs on its own fresh branch: the ids of an attempt's
\* branches are pairwise distinct and are not keys of the shared registry
\* while the attempt runs; after a successful dispatch each of them is a key
\* of the registry, the i-th record names the i-th branch, and the keys the
\* registry had before are still there.
C15_FreshBranchPerSlot ==
    /\ Launched =>
          \A i \in 1..Len(d_slots) : \A j \in 1..Len(d_slots) :
              i # j => d_slots[i].branch_id # d_slots[j].branch_id
    /\ d_pc = "running" => SlotIds \cap session_branches = {}
    /\ DefaultBranch \in session_branches
    /\ d_pc = "returned" =>
          /\ SlotIds \subseteq session_branches
          /\ Cardinality(session_branches) = 1 + Len(d_slots)
          /\ (d_args.include_mapping /\ Len(d_slots) > 0) =>
                /\ Len(d_out.v) = Len(d_slots)
                /\ \A i \in 1..Len(d_slots) : d_out.v[i].branch_id = d_slots[i].branch_id

\* three replicas of one instruction and context: three records, three ids
C15_Witness ==
    /\ d_pc = "returned"
    /\ d_args.instruction = Str("a") /\ d_args.context = Str("x")
    /\ d_args.num_instances = 3 /\ d_args.include_mapping
    /\ Len(d_out.v) = 3
    /\ Cardinality({d_out.v[i].branch_id : i \in 1..3}) = 3
    /\ {d_out.v[i].branch_id : i \in 1..3} \subseteq session_branches

\* C16: a dispatch with an empty instruction or context sequence fails with
\* ExpansionError, creates no branch, never returns normally and adds nothing
\* to the shared registry.
C16_EmptySequenceRaises ==
    (~ValidInput(d_args) /\ d_pc # "start")
        => /\ d_pc = "raised"
           /\ d_error = "ExpansionError"
           /\ d_slots = <<>>
           /\ session_branches = {DefaultBranch}

\* the attempts the caller's options allow, the defaults filling what is absent
AllowedAttempts ==
    1 + (IF \E p \in d_caller : p[1] = "retries"
         THEN (CHOOSE p \in d_caller : p[1] = "retries")[2]
         ELSE (CHOOSE p \in retry_kwargs : p[1] = "retries")[2])

\* C17: pchat retries the whole fan-out: an attempt is started again only
\* after it failed and only while the configured number of retries, the
\* caller's if given, is not used up; every attempt plans and creates its
\* branches anew; the call returns the result of the first attempt in which
\* every branch succeeded, and fails with RetryExhausted once the last
\* allowed attempt has failed.
C17_WholeCallRetry ==
    /\ d_attempt <= AllowedAttempts
    /\ (d_pc = "start" /\ d_attempt > 0) => (SomeSlotFailed /\ d_attempt < AllowedAttempts)
    /\ d_pc = "running" =>
          /\ Len(d_slots) = NSlots(d_args)
          /\ branches \subseteq SlotIds
    /\ d_pc = "raised" =>
          /\ d_error = "RetryExhausted"
          /\ d_attempt = AllowedAttempts
          /\ SomeSlotFailed
    /\ (d_pc = "returned" /\ Len(d_slots) > 0) =>
          /\ AllSlotsDone
          /\ d_out = List(Aggregate(d_args, d_slots))
          /\ d_error = "none"

\* the caller asked for one retry where the default is none: the first
\* attempt failed and the second one's result is returned
C17_Witness ==
    /\ d_pc = "returned"
    /\ d_caller = {<<"retries", 1>>}
    /\ d_attempt = 2
    /\ d_out.kind = "list" /\ Len(d_out.v) = 2

ErrorMarker == [kind |-> "error"]

\* C18: when a branch's chat fails, the dispatch still returns a complete
\* ordered sequence in which the failed slot holds an error marker.
C18_BranchFailureContained ==
    (d_pc # "running" /\ SomeSlotFailed)
        => /\ d_pc = "returned"
           /\ d_out.kind = "list"
           /\ Len(d_out.v) = Len(d_slots)
           /\ \A i \in 1..Len(d_slots) :
                d_slots[i].st = "failed" => d_out.v[i] = ErrorMarker

FlagsBothSet == execute_stop[StructureId] /\ execute_stop[ExecutableId]

\* C19: under fair scheduling, once Structure and Executable have both set
\* their stop flag during a cycle, the supervisor sets the Router's stop
\* flag, the Router loop exits and execute() ends; and while one of the two
\* flags is false the supervisor is still polling, the Router's flag is not
\* set and execute() stays in the join.
C19_Termination ==
    /\ []((epc = "joining" /\ ~FlagsBothSet)
            => (~execute_stop[ManagerId] /\ taskpc[ControlId] = "running"))
    /\ [][(epc = "joining" /\ ~FlagsBothSet) => epc' = "joining"]_vars
    /\ (epc = "joining" /\ FlagsBothSet) ~> (execute_stop[ManagerId] /\ taskpc[ControlId] = "done")
    /\ (epc = "joining" /\ FlagsBothSet) ~> (taskpc[ManagerId] = "done")
    /\ (epc = "joining" /\ FlagsBothSet) ~> (epc = "ready")

\* a first cycle in which both collaborators stopped, the supervisor then
\* stopped the Router, and execute() returned
C19_Witness ==
    /\ Returned /\ cycle = 1
    /\ reported = Collaborators
    /\ taskpc[ControlId] = "done" /\ taskpc[ManagerId] = "done"

\* C20: the shared registry changes only in the one merge step taken when
\* every branch of the attempt has completed; it is as it was while branches
\* run, after a failed attempt and after the call has failed, and after a
\* successful dispatch it has gained exactly the branches of that attempt.
C20_RegistryState ==
    /\ d_pc \in {"start", "running", "raised"} => session_branches = {DefaultBranch}
    /\ d_pc = "returned" => session_branches = {DefaultBranch} \cup SlotIds
C20_RegistryMergedOnce ==
    /\ []C20_RegistryState
    /\ [][session_branches' # session_branches
            => (d_pc = "running" /\ AllSlotsDone /\ d_pc' = "returned")]_vars

\* a dispatch whose first attempt failed: only the second attempt's branches
\* are in the registry
C20_Witness ==
    /\ d_pc = "returned"
    /\ d_attempt = 2
    /\ Len(d_slots) = 2
    /\ session_branches = {DefaultBranch} \cup SlotIds
    /\ Cardinality(session_branches) = 3
    /\ next_branch = 5

====
